---- MODULE Spec2Model ----
(***************************************************************************)
(* A model of the GO-PCA helper library: the q-value correction            *)
(* (common.get_qvalues), the configuration, signature and result records   *)
(* (go_pca_objects), the signature expression calculators and the          *)
(* clustering order (common).                                              *)
(*                                                                         *)
(* Python sequences are 0-based; the sequences below are 1-based, so the   *)
(* Python index i is the position i+1 here.  Floating point numbers are    *)
(* modelled by exact rationals (and the IEEE specials nan / +inf / -inf    *)
(* where a division by zero can produce them).                             *)
(***************************************************************************)
EXTENDS Integers, Sequences, FiniteSets, TLC

VARIABLES
    \* ---- get_qvalues (common.py) ----
    pvals,      \* the p-value vector passed in (a sequence of rationals)
    pi_zero,    \* the prior passed in (a rational)
    qpc,        \* position in get_qvalues: "call", "loop", "done"
    a,          \* the visiting order (argsort, reversed)
    it,         \* position of the for loop in a
    s,          \* the rank counter s
    q,          \* the running minimum q
    qvals,      \* the q-value vector being filled (np.empty: Uninit entries)
    qret,       \* what the call produced: [raised, value]
    \* ---- GOPCAConfig (go_pca_objects.py) ----
    configs,    \* the GOPCAConfig objects constructed so far
    cfg_call,   \* the last call on the class: [op, ...arguments]
    cfg_ret,    \* what that call produced: [raised, value, printed]
    \* ---- GOPCASignature (go_pca_objects.py) ----
    sigA,       \* a signature object the caller holds (NoObject: none yet)
    sigB,       \* a second signature object the caller holds
    sig_call,   \* the last call on the class: [op, ...arguments]
    sig_ret,    \* what that call produced: [raised, value]
    \* ---- GOPCAResult (go_pca_objects.py) ----
    res_call,   \* the last constructor call: [op, args]
    res_ret,    \* what that call produced: [raised, value]
    \* ---- get_standardized / get_signature_expression[_robust] ----
    genes,      \* the gene names, one per row of E
    E,          \* the expression matrix (rows of numbers)
    sig_genes,  \* the member genes of the signature
    expr_call,  \* "call" before the function ran, then its name
    expr_ret,   \* what the call produced: [raised, value]
    \* ---- cluster_rows / cluster_signatures (common.py) ----
    S,          \* the matrix whose rows are clustered
    metric,     \* the metric argument
    method,     \* the method argument
    Z,          \* the linkage matrix scipy computes for these arguments
    finite_check, \* whether the installed scipy rejects non-finite distances
    cl_call,    \* "call" before the function ran, then [fn, invert]
    cl_ret,     \* what the call produced: [raised, value]
    \* ---- the orchestrator (per-component signature discovery) ----
    loadings,   \* the loadings matrix: component -> gene -> loading
    annotations, \* the candidate annotation terms: term -> its gene set
    disable_local_filter,  \* the configuration switch of the local filter
    disable_global_filter, \* the configuration switch of the global filter
    pool,       \* the genes still taking part in rankings
    signatures, \* the accumulating list of accepted signatures
    component,  \* the principal component being processed (1-based)
    direction,  \* its direction being processed: 1 (positive), -1 (negative)
    ranking,    \* the gene ranking of the current scan
    phase,      \* "rank" (about to rank), "scan" (ranked), "done"
    \* ---- GOPCASignature.get_pretty_format (go_pca_objects.py) ----
    pf_self,    \* the signature object the method is called on
    pf_call,    \* the call: [op, omit_acc, nitty_gritty, max_name_length]
    pf_ret      \* what the call produced: [raised, value]

qvars == <<pvals, pi_zero, qpc, a, it, s, q, qvals, qret>>
cfgvars == <<configs, cfg_call, cfg_ret>>

sigvars == <<sigA, sigB, sig_call, sig_ret>>
resvars == <<res_call, res_ret>>
exprvars == <<genes, E, sig_genes, expr_call, expr_ret>>

clvars == <<S, metric, method, Z, finite_check, cl_call, cl_ret>>

orcvars == <<loadings, annotations, disable_local_filter,
             disable_global_filter, pool, signatures, component, direction,
             ranking, phase>>

pfvars == <<pf_self, pf_call, pf_ret>>

vars == <<qvars, cfgvars, sigvars, resvars, exprvars, clvars, orcvars,
          pfvars>>

\* what the calls of one part of the library leave alone
notq == <<cfgvars, sigvars, resvars, exprvars, clvars, orcvars,
    pfvars>>
notcfg == <<qvars, sigvars, resvars, exprvars, clvars, orcvars,
    pfvars>>
notsig == <<qvars, cfgvars, resvars, exprvars, clvars, orcvars,
    pfvars>>
notres == <<qvars, cfgvars, sigvars, exprvars, clvars, orcvars,
    pfvars>>
notexpr == <<qvars, cfgvars, sigvars, resvars, clvars, orcvars,
    pfvars>>
notcl == <<qvars, cfgvars, sigvars, resvars, exprvars, orcvars,
    pfvars>>
notorc == <<qvars, cfgvars, sigvars, resvars, exprvars, clvars, pfvars>>
notpf == <<qvars, cfgvars, sigvars, resvars, exprvars, clvars, orcvars>>

None == "None"
\* the value of a call that returned no object
NoObject == [type |-> "NoneType"]
\* an entry of np.empty that was never assigned: no number (denominator 0)
Uninit == [num |-> 0, den |-> 0]

\* ------------------------------------------------------------------------
\* Bounds of the model
\* ------------------------------------------------------------------------
MaxLen == 3
\* the most recognized keys a call leaves out
MaxMissing == 2
\* the largest length of a list and the largest extent of a matrix axis
\* passed to GOPCAResult
MaxDim == 2
\* the most samples (columns) of an expression matrix
MaxSamples == 3
\* the most rows of a matrix passed to cluster_rows
MaxRows == 3

\* ------------------------------------------------------------------------
\* Exact rational arithmetic standing for float64
\* ------------------------------------------------------------------------
Abs(x) == IF x < 0 THEN -x ELSE x

RECURSIVE GCD(_, _)
GCD(x, y) == IF y = 0 THEN x ELSE GCD(y, x % y)

\* the rational n/d (d # 0) in lowest terms with a positive denominator
Rat(n, d) ==
    LET g == GCD(Abs(n), Abs(d))
        sg == IF d < 0 THEN -1 ELSE 1
    IN  [num |-> (sg * n) \div g, den |-> Abs(d) \div g]

RLe(x, y) == x.num * y.den <= y.num * x.den
RLt(x, y) == x.num * y.den < y.num * x.den
RMul(x, y) == Rat(x.num * y.num, x.den * y.den)
RDivInt(x, k) == Rat(x.num, x.den * k)
RMulInt(x, k) == Rat(x.num * k, x.den)
\* Python's min(x, y): y unless x < y
RMin(x, y) == IF RLt(x, y) THEN x ELSE y

Zero == Rat(0, 1)
One == Rat(1, 1)

Reverse(sq) == [i \in 1..Len(sq) |-> sq[Len(sq) + 1 - i]]

\* ------------------------------------------------------------------------
\* get_qvalues
\* ------------------------------------------------------------------------
\* the p-values a caller may pass: inside [0, 1] and outside it
PValues == {Rat(-1, 4), Rat(0, 1), Rat(1, 4), Rat(1, 2), Rat(1, 1), Rat(5, 4)}
PiZeros == {Rat(0, 1), Rat(1, 2), Rat(1, 1), Rat(2, 1)}

SeqsUpTo(T, n) == UNION {[1..k -> T] : k \in 0..n}

InUnit(p) == RLe(Zero, p) /\ RLe(p, One)

\* np.argsort(pvals, kind='mergesort'): the positions in ascending order of
\* value, equal values in their input order (stable)
Argsort(v) ==
    LET n == Len(v)
        Before(i, j) == RLt(v[i], v[j]) \/ (v[i] = v[j] /\ i < j)
    IN  CHOOSE f \in [1..n -> 1..n] :
            /\ \A i, j \in 1..n : i # j => f[i] # f[j]
            /\ \A i, j \in 1..n : i < j => Before(f[i], f[j])

\* a stable descending order: equal values in their input order
VisitOrderEarlierFirst(v) ==
    LET n == Len(v)
        Before(i, j) == RLt(v[j], v[i]) \/ (v[i] = v[j] /\ i < j)
    IN  CHOOSE f \in [1..n -> 1..n] :
            /\ \A i, j \in 1..n : i # j => f[i] # f[j]
            /\ \A i, j \in 1..n : i < j => Before(f[i], f[j])

\* a = np.argsort(...); a = a[::-1]
VisitOrder(v) == Reverse(Argsort(v))

\* ((pi_zero * pvals[i]) * n) / s
Candidate(pi, p, n, rank) == RDivInt(RMulInt(RMul(pi, p), n), rank)

\* the candidate alone, the running minimum dropped
NextQNoMin(pi, p, n, rank, qq) == Candidate(pi, p, n, rank)

\* q = min(candidate, q)
NextQ(pi, p, n, rank, qq) == RMin(Candidate(pi, p, n, rank), qq)

QInit ==
    /\ pvals \in SeqsUpTo(PValues, MaxLen)
    /\ pi_zero \in PiZeros
    /\ qpc = "call"
    /\ a = <<>>
    /\ it = 0
    /\ s = 0
    /\ q = Zero
    /\ qvals = <<>>
    /\ qret = [raised |-> None, value |-> <<>>]

QCallBody ==
    /\ qvals' = [i \in 1..Len(pvals) |-> Uninit]
    /\ a' = VisitOrder(pvals)
    /\ s' = 1
    /\ q' = One
    /\ it' = 1
    /\ qpc' = "loop"
    /\ UNCHANGED <<pvals, pi_zero, qret>>
    /\ UNCHANGED notq

\* the entry of a get_qvalues that validated its input first
QCallValidating ==
    /\ qpc = "call"
    /\ IF Len(pvals) = 0 \/ \E i \in 1..Len(pvals) : ~InUnit(pvals[i])
       THEN /\ qret' = [raised |-> "ValueError", value |-> <<>>]
            /\ qpc' = "done"
            /\ UNCHANGED <<pvals, pi_zero, a, it, s, q, qvals>>
            /\ UNCHANGED notq
       ELSE QCallBody

\* lines 251-259: n, qvals = np.empty(n), the visiting order, s = 1, q = 1.0
QCall ==
    /\ qpc = "call"
    /\ QCallBody

\* lines 260-263: one iteration of the for loop
QStep ==
    /\ qpc = "loop"
    /\ it <= Len(a)
    /\ LET i == a[it]
           nq == NextQ(pi_zero, pvals[i], Len(pvals), s, q)
       IN  /\ q' = nq
           /\ qvals' = [qvals EXCEPT ![i] = nq]
    /\ s' = s + 1
    /\ it' = it + 1
    /\ UNCHANGED <<pvals, pi_zero, qpc, a, qret>>
    /\ UNCHANGED notq

\* line 265: return qvals (no path of the function raises)
QReturn ==
    /\ qpc = "loop"
    /\ it > Len(a)
    /\ qret' = [raised |-> None, value |-> qvals]
    /\ qpc' = "done"
    /\ UNCHANGED <<pvals, pi_zero, a, it, s, q, qvals>>
    /\ UNCHANGED notq

QNext == QCall \/ QStep \/ QReturn

\* no call of get_qvalues in progress
QIdle ==
    /\ pvals = <<>>
    /\ pi_zero = One
    /\ qpc = "idle"
    /\ a = <<>>
    /\ it = 0
    /\ s = 0
    /\ q = Zero
    /\ qvals = <<>>
    /\ qret = [raised |-> None, value |-> <<>>]

\* ------------------------------------------------------------------------
\* GOPCAConfig
\* ------------------------------------------------------------------------
valid_attrs == {"mHG_X_frac", "mHG_X_min", "mHG_L", "pval_thresh",
                "mfe_pval_thresh", "mfe_thresh", "disable_local_filter",
                "disable_global_filter"}

\* keys a caller may pass that the class does not know
UnknownKeys == {"seed", "verbose"}
AllKeys == valid_attrs \cup UnknownKeys

\* the keys in the order of Python's string comparison
KeyOrder == <<"disable_global_filter", "disable_local_filter", "mHG_L",
              "mHG_X_frac", "mHG_X_min", "mfe_pval_thresh", "mfe_thresh",
              "pval_thresh", "seed", "verbose">>

\* sorted(keys)
Sorted(keys) == SelectSeq(KeyOrder, LAMBDA k : k \in keys)

\* the values a caller may give the keys
ValueMaps == {[k \in AllKeys |-> 0],
              [k \in AllKeys |-> IF k \in {"mHG_L", "seed"} THEN 1 ELSE 0]}

\* the key sets of a call: the recognized keys but a few, and any unknown ones
KeySets(most) ==
    {(valid_attrs \ M) \cup U :
        M \in {X \in SUBSET valid_attrs : Cardinality(X) <= most},
        U \in SUBSET UnknownKeys}

\* the keyword arguments of a call: some keys, each with its value
KwargsSet(most) ==
    {[k \in K |-> vm[k]] : K \in KeySets(most), vm \in ValueMaps}

\* objects that are not GOPCAConfig objects
OtherObjects == {[type |-> "str", dict |-> <<>>]}

\* a constructor that stores every supplied key, the unknown ones included
GOPCAConfig_init_KeepUnknown(kwargs) ==
    LET supplied_attrs == DOMAIN kwargs
        unknown_attrs == supplied_attrs \ valid_attrs
    IN  IF \E k \in valid_attrs : k \notin supplied_attrs
        THEN [raised |-> "AssertionError", value |-> NoObject,
              printed |-> Sorted(unknown_attrs)]
        ELSE [raised |-> None,
              value |-> [type |-> "GOPCAConfig", dict |-> kwargs],
              printed |-> Sorted(unknown_attrs)]

\* GOPCAConfig.__init__(**kwargs): the warnings are printed first, then the
\* first missing recognized key fails its assert; otherwise the object's
\* attributes are the recognized keys with their supplied values
GOPCAConfig_init(kwargs) ==
    LET supplied_attrs == DOMAIN kwargs
        unknown_attrs == supplied_attrs \ valid_attrs
    IN  IF \E k \in valid_attrs : k \notin supplied_attrs
        THEN [raised |-> "AssertionError", value |-> NoObject,
              printed |-> Sorted(unknown_attrs)]
        ELSE [raised |-> None,
              value |-> [type |-> "GOPCAConfig",
                         dict |-> [k \in valid_attrs |-> kwargs[k]]],
              printed |-> Sorted(unknown_attrs)]

\* GOPCAConfig.__repr__: the '%s=%s' pairs of sorted(valid_attrs)
GOPCAConfig_repr(self) ==
    [i \in 1..Len(Sorted(valid_attrs)) |->
        <<Sorted(valid_attrs)[i], ToString(self.dict[Sorted(valid_attrs)[i]])>>]

\* the parameters __eq__ is declared with: def __eq__(self)
GOPCAConfig_eq_params == <<"self">>

\* the body of __eq__, were it entered
GOPCAConfig_eq_body(self, other) ==
    IF self.type # other.type THEN FALSE
    ELSE IF GOPCAConfig_repr(self) = GOPCAConfig_repr(other) THEN TRUE
    ELSE FALSE

\* self == other: Python calls type(self).__eq__(self, other) with two
\* arguments; a function declared with another number of parameters raises
\* TypeError before its body runs
GOPCAConfig_eq(self, other) ==
    IF Len(GOPCAConfig_eq_params) # 2
    THEN [raised |-> "TypeError", value |-> FALSE]
    ELSE [raised |-> None, value |-> GOPCAConfig_eq_body(self, other)]

CfgInit ==
    /\ configs = {}
    /\ cfg_call = [op |-> "none"]
    /\ cfg_ret = [raised |-> None, value |-> NoObject]

CfgIdle == CfgInit

\* GOPCAConfig(**kwargs)
CfgConstruct ==
    \E kwargs \in KwargsSet(MaxMissing) :
        LET r == GOPCAConfig_init(kwargs)
        IN  /\ cfg_call' = [op |-> "__init__", kwargs |-> kwargs]
            /\ cfg_ret' = r
            /\ configs' = IF r.raised = None THEN configs \cup {r.value}
                          ELSE configs
            /\ UNCHANGED notcfg

\* c1 == c2 with c1 a constructed config
CfgCompare ==
    \E self \in configs, other \in configs \cup OtherObjects :
        /\ cfg_call' = [op |-> "__eq__", self |-> self, other |-> other]
        /\ cfg_ret' = GOPCAConfig_eq(self, other)
        /\ UNCHANGED configs
        /\ UNCHANGED notcfg

CfgNext == CfgConstruct \/ CfgCompare

\* ------------------------------------------------------------------------
\* GOPCASignature
\* ------------------------------------------------------------------------
\* t[i] of a Python tuple
PyIdx(t, i) == t[i + 1]

\* enrichment results (objects of a class outside this package): the term
\* tuple (id, source, namespace, name), the counts k and K, the p-value
Enrichments ==
    {[term |-> <<"GO:0006955", "GO", "BP", "immune response">>,
      k |-> 2, K |-> 5, pval |-> Rat(1, 100)],
     [term |-> <<"GO:0007049", "GO", "BP", "cell cycle">>,
      k |-> 1, K |-> 3, pval |-> Rat(1, 50)]}

\* repr(self.enrichment): the text of the enrichment's fields
ReprEnrichment(enr) ==
    <<"term", enr.term, "k", ToString(enr.k), "K", ToString(enr.K),
      "pval", enr.pval>>

\* fold enrichments, in hundredths (201 is 2.01)
MfeValues == {201, 204, 211}
PcValues == {-1, 2}
GeneLists == {<<"g1">>, <<"g1", "g2", "g1">>}
\* label arguments: None, or a text
LabelArgs == {<<>>, <<"sig 1">>}

Range(sq) == {sq[i] : i \in 1..Len(sq)}

\* '%.1f' % x for x >= 0 given in hundredths: the nearest tenth, as the
\* number of tenths (no value used here lies halfway between two tenths)
Fmt1f(x) == (x + 5) \div 10

\* '%d' % n
FmtD(n) == ToString(n)

\* '%s: %s (%d:%d/%d)' %(enr.term[2],enr.term[3],pc,enr.k,enr.K)
DefaultLabel(enr, pc) ==
    <<PyIdx(enr.term, 2), ": ", PyIdx(enr.term, 3), " (", FmtD(pc), ":",
      FmtD(enr.k), "/", FmtD(enr.K), ")">>

\* GOPCASignature.__init__(genes, pc, mfe, enrichment, label=None)
GOPCASignature_init(gene_list, pc, mfe, enrichment, label) ==
    [type |-> "GOPCASignature",
     genes |-> Range(gene_list),
     pc |-> pc,
     mfe |-> mfe,
     enrichment |-> enrichment,
     label |-> IF label = <<>> THEN DefaultLabel(enrichment, pc) ELSE label]

\* GOPCASignature.__repr__:
\* '<GOPCASignature: label="%s", pc=%d, mfe=%.1f; %s>'
GOPCASignature_repr(self) ==
    <<"<GOPCASignature: label=", self.label, ", pc=", FmtD(self.pc),
      ", mfe=", Fmt1f(self.mfe), "; ", ReprEnrichment(self.enrichment), ">">>

\* GOPCASignature.__eq__(self, other)
GOPCASignature_eq(self, other) ==
    IF self.type # other.type THEN FALSE
    ELSE IF GOPCASignature_repr(self) = GOPCASignature_repr(other) THEN TRUE
    ELSE FALSE

SigInit ==
    /\ sigA = NoObject
    /\ sigB = NoObject
    /\ sig_call = [op |-> "none"]
    /\ sig_ret = [raised |-> None, value |-> FALSE]

SigIdle == SigInit

SigArgs == [genes : GeneLists, pc : PcValues, mfe : MfeValues,
            enrichment : Enrichments, label : LabelArgs]

SigNew(x) == GOPCASignature_init(x.genes, x.pc, x.mfe, x.enrichment, x.label)

\* sigA = GOPCASignature(...)
SigConstructA ==
    \E x \in SigArgs :
        /\ sigA' = SigNew(x)
        /\ sig_call' = [op |-> "__init__"]
        /\ sig_ret' = [raised |-> None, value |-> FALSE]
        /\ UNCHANGED sigB
        /\ UNCHANGED notsig

\* sigB = GOPCASignature(...)
SigConstructB ==
    \E x \in SigArgs :
        /\ sigB' = SigNew(x)
        /\ sig_call' = [op |-> "__init__"]
        /\ sig_ret' = [raised |-> None, value |-> FALSE]
        /\ UNCHANGED sigA
        /\ UNCHANGED notsig

\* sigA == sigB, or sigA == an object of another type
SigCompare ==
    /\ sigA # NoObject
    /\ \E other \in {sigB} \cup OtherObjects :
          /\ other # NoObject
          /\ sig_call' = [op |-> "__eq__", self |-> sigA, other |-> other]
          /\ sig_ret' = [raised |-> None,
                         value |-> GOPCASignature_eq(sigA, other)]
    /\ UNCHANGED <<sigA, sigB>>
    /\ UNCHANGED notsig

SigNext == SigConstructA \/ SigConstructB \/ SigCompare

\* ------------------------------------------------------------------------
\* GOPCAResult
\* ------------------------------------------------------------------------
\* lengths and array extents up to d
Dims(d) == 0..d
Shapes1D(d) == {<<r>> : r \in Dims(d)}
Shapes2D(d) == {<<r, c>> : r \in Dims(d), c \in Dims(d)}
StrItems(d) == UNION {[1..k -> {"str"}] : k \in Dims(d)}
SigItems(d) == UNION {[1..k -> {"GOPCASignature"}] : k \in Dims(d)}

\* arguments of the documented types, of every size up to d: a sequence is
\* given by its type and its items' types, an array by its type and shape
TypedResArgs(d) ==
    {[config |-> "GOPCAConfig", genes |-> [type |-> ty, items |-> g],
      samples |-> [type |-> ty, items |-> sm],
      W |-> [type |-> "ndarray", shape |-> w],
      signatures |-> [type |-> ty, items |-> sg],
      S |-> [type |-> "ndarray", shape |-> sh]] :
        ty \in {"list", "tuple"}, g \in StrItems(d), sm \in StrItems(d),
        w \in {<<r, 1>> : r \in Dims(d)}, sg \in SigItems(d),
        sh \in Shapes1D(d) \cup Shapes2D(d)}

\* the same with one argument of a wrong type
IllTypedResArgs(x) ==
    {[x EXCEPT !.config = "dict"],
     [x EXCEPT !.genes.type = "set"],
     [x EXCEPT !.samples.type = "str"],
     [x EXCEPT !.W.type = "list"],
     [x EXCEPT !.signatures.type = "set"],
     [x EXCEPT !.S.type = "list"]}
    \cup {[x EXCEPT !.signatures.items[i] = "str"] :
            i \in 1..Len(x.signatures.items)}

IsListOrTuple(x) == x.type = "list" \/ x.type = "tuple"

\* tuple(x)
AsTuple(x) == [type |-> "tuple", items |-> x.items]

\* lines 156-163: the first isinstance assert that fails
GOPCAResult_typecheck(args) ==
    IF args.config # "GOPCAConfig" THEN "AssertionError"
    ELSE IF ~IsListOrTuple(args.genes) THEN "AssertionError"
    ELSE IF ~IsListOrTuple(args.samples) THEN "AssertionError"
    ELSE IF args.W.type # "ndarray" THEN "AssertionError"
    ELSE IF ~IsListOrTuple(args.signatures) THEN "AssertionError"
    ELSE IF \E i \in 1..Len(args.signatures.items) :
                args.signatures.items[i] # "GOPCASignature"
        THEN "AssertionError"
    ELSE IF args.S.type # "ndarray" THEN "AssertionError"
    ELSE None

\* the shape asserts without the one on the columns of S
GOPCAResult_shapecheck_NoColumns(args) ==
    IF PyIdx(args.W.shape, 0) # Len(args.genes.items)
    THEN "AssertionError"
    ELSE IF PyIdx(args.S.shape, 0) # Len(args.signatures.items)
        THEN "AssertionError"
    ELSE None

\* lines 165-167: the first shape assert that fails; S.shape[1] of a
\* one-dimensional S raises IndexError
GOPCAResult_shapecheck(args) ==
    IF PyIdx(args.W.shape, 0) # Len(args.genes.items)
    THEN "AssertionError"
    ELSE IF PyIdx(args.S.shape, 0) # Len(args.signatures.items)
        THEN "AssertionError"
    ELSE IF Len(args.S.shape) < 2 THEN "IndexError"
    ELSE IF PyIdx(args.S.shape, 1) # Len(args.samples.items)
        THEN "AssertionError"
    ELSE None

\* the first statement of lines 156-167 that fails, with its exception
GOPCAResult_check(args) ==
    IF GOPCAResult_typecheck(args) # None
    THEN GOPCAResult_typecheck(args)
    ELSE GOPCAResult_shapecheck(args)

\* GOPCAResult.__init__(config, genes, samples, W, signatures, S)
GOPCAResult_init(args) ==
    IF GOPCAResult_check(args) # None
    THEN [raised |-> GOPCAResult_check(args), value |-> NoObject]
    ELSE [raised |-> None,
          value |-> [type |-> "GOPCAResult",
                     config |-> args.config,
                     genes |-> AsTuple(args.genes),
                     samples |-> AsTuple(args.samples),
                     W |-> args.W,
                     signatures |-> AsTuple(args.signatures),
                     S |-> args.S]]

\* a caller about to construct a result from some arguments
ResInit ==
    /\ \E x \in TypedResArgs(MaxDim) :
          res_call \in [op : {"call"}, args : {x} \cup IllTypedResArgs(x)]
    /\ res_ret = [raised |-> None, value |-> NoObject]

ResIdle ==
    /\ res_call = [op |-> "none"]
    /\ res_ret = [raised |-> None, value |-> NoObject]

\* GOPCAResult(config, genes, samples, W, signatures, S)
ResConstruct ==
    /\ res_call.op = "call"
    /\ res_call' = [res_call EXCEPT !.op = "__init__"]
    /\ res_ret' = GOPCAResult_init(res_call.args)
    /\ UNCHANGED notres

ResNext == ResConstruct

\* ------------------------------------------------------------------------
\* get_standardized, get_signature_expression, get_signature_expression_robust
\* ------------------------------------------------------------------------
RAdd(x, y) == Rat(x.num * y.den + y.num * x.den, x.den * y.den)
RSub(x, y) == Rat(x.num * y.den - y.num * x.den, x.den * y.den)
RAbs(x) == Rat(Abs(x.num), x.den)
RDiv(x, y) == Rat(x.num * y.den, x.den * y.num)

RECURSIVE RSum(_)
RSum(sq) == IF Len(sq) = 0 THEN Zero ELSE RAdd(sq[1], RSum(Tail(sq)))

\* float64 values: a finite value d / sqrt(v) (v > 0; a rational r is
\* r / sqrt(1)), the mean of several finite values, nan, +inf, -inf
FFin(d, v) == [k |-> "fin", d |-> d, v |-> v]
FMeanOf(terms) == [k |-> "mean", terms |-> terms]
NaN == [k |-> "nan"]
PInf == [k |-> "inf", sign |-> 1]
NInf == [k |-> "inf", sign |-> -1]
IsFinite(x) == x.k = "fin" \/ x.k = "mean"

\* np.float64 of a row of numbers
AsFloats(row) == [j \in 1..Len(row) |-> Rat(row[j], 1)]

\* np.mean(e) of a non-empty vector
NpMean(e) == RDivInt(RSum(e), Len(e))

\* np.median(e) of a non-empty vector: the middle of the sorted values, the
\* mean of the two middle ones for an even length
NpMedian(e) ==
    LET srt == SortSeq(e, LAMBDA x, y : RLt(x, y))
        n == Len(e)
    IN  IF n % 2 = 1 THEN srt[(n + 1) \div 2]
        ELSE RDivInt(RAdd(srt[n \div 2], srt[n \div 2 + 1]), 2)

\* the square of np.std(e, ddof): the sum of squared deviations over
\* n - ddof; 0/0 (n = ddof) is nan
NpVar(e, ddof) ==
    LET m == NpMean(e)
        ss == RSum([j \in 1..Len(e) |-> RMul(RSub(e[j], m), RSub(e[j], m))])
    IN  IF Len(e) - ddof = 0 THEN [nan |-> TRUE, v |-> Zero]
        ELSE [nan |-> FALSE, v |-> RDivInt(ss, Len(e) - ddof)]

\* x / np.std(...), numpy's division: x/nan and 0/0 are nan, x/0 is +-inf
DivStd(x, var) ==
    IF var.nan THEN NaN
    ELSE IF var.v = Zero
         THEN IF x = Zero THEN NaN ELSE IF RLt(Zero, x) THEN PInf ELSE NInf
    ELSE FFin(x, var.v)

\* x / std for a rational std
DivRat(x, std) ==
    IF std = Zero
    THEN IF x = Zero THEN NaN ELSE IF RLt(Zero, x) THEN PInf ELSE NInf
    ELSE FFin(RDiv(x, std), One)

\* get_standardized(e): e -= np.mean(e); e /= np.std(e,ddof=1)
get_standardized(e) ==
    LET x == AsFloats(e)
        m == NpMean(x)
        centred == [j \in 1..Len(x) |-> RSub(x[j], m)]
        var == NpVar(centred, 1)
    IN  [j \in 1..Len(x) |-> DivStd(centred[j], var)]

\* genes.index(g) (and misc.bisect_index on the sorted gene list): the
\* first position of g
Index(gs, g) == CHOOSE i \in 1..Len(gs) : gs[i] = g /\ \A h \in 1..(i - 1) : gs[h] # g

\* np.mean(S, axis=0), one column: the sum of the column over its length,
\* by IEEE rules (nan absorbs, inf + -inf is nan, x / 1 is x)
ColMean(col) ==
    LET ks == {col[i].k : i \in 1..Len(col)}
        signs == {col[i].sign : i \in {h \in 1..Len(col) : col[h].k = "inf"}}
    IN  IF "nan" \in ks THEN NaN
        ELSE IF signs = {1, -1} THEN NaN
        ELSE IF signs = {1} THEN PInf
        ELSE IF signs = {-1} THEN NInf
        ELSE IF Len(col) = 1 THEN col[1]
        ELSE FMeanOf(col)

MeanAxis0(M, n) == [j \in 1..n |-> ColMean([i \in 1..Len(M) |-> M[i][j]])]

\* the row with the population standard deviation (ddof=0)
ZScoreRowPopulation(gs, EE, g) ==
    LET x == AsFloats(EE[Index(gs, g)])
        m == NpMean(x)
        centred == [j \in 1..Len(x) |-> RSub(x[j], m)]
        var == NpVar(centred, 0)
    IN  [j \in 1..Len(x) |-> DivStd(centred[j], var)]

\* the row of a calculator that leaves a gene without spread at zero
\* instead of dividing
ZScoreRowGuarded(gs, EE, g) ==
    LET x == AsFloats(EE[Index(gs, g)])
        m == NpMean(x)
        centred == [j \in 1..Len(x) |-> RSub(x[j], m)]
        var == NpVar(centred, 1)
    IN  [j \in 1..Len(x) |->
            IF var.nan \/ var.v = Zero THEN FFin(Zero, One)
            ELSE DivStd(centred[j], var)]

\* one row of S in get_signature_expression (lines 179-182)
ZScoreRow(gs, EE, g) ==
    LET x == AsFloats(EE[Index(gs, g)])
        m == NpMean(x)
        centred == [j \in 1..Len(x) |-> RSub(x[j], m)]
        var == NpVar(centred, 1)
    IN  [j \in 1..Len(x) |-> DivStd(centred[j], var)]

\* one row of S in get_signature_expression_robust (lines 191-197)
RobustRow(gs, EE, g) ==
    LET x == AsFloats(EE[Index(gs, g)])
        med == NpMedian(x)
        mad == NpMedian([j \in 1..Len(x) |-> RAbs(RSub(x[j], med))])
        std == RMul(Rat(14826, 10000), mad)
    IN  [j \in 1..Len(x) |-> DivRat(RSub(x[j], med), std)]

\* p,n = E.shape
NCols(EE) == Len(EE[1])

\* get_signature_expression(genes, E, sig_genes): no statement raises for
\* member genes that are in genes
get_signature_expression(gs, EE, sg) ==
    [raised |-> None,
     value |-> MeanAxis0([i \in 1..Len(sg) |-> ZScoreRow(gs, EE, sg[i])],
                         NCols(EE))]

\* get_signature_expression_robust(genes, E, sig_genes)
get_signature_expression_robust(gs, EE, sg) ==
    [raised |-> None,
     value |-> MeanAxis0([i \in 1..Len(sg) |-> RobustRow(gs, EE, sg[i])],
                         NCols(EE))]

GeneNames == <<"g1", "g2">>
ExprValues == {0, 1, 3}
SigGeneLists == {<<"g1">>, <<"g2">>, <<"g1", "g2">>, <<"g2", "g2">>}
Matrices(most) == UNION {[1..Len(GeneNames) -> [1..n -> ExprValues]] :
                            n \in 1..most}

\* a caller about to score a signature on an expression matrix
ExprInit ==
    /\ genes = GeneNames
    /\ E \in Matrices(MaxSamples)
    /\ sig_genes \in SigGeneLists
    /\ expr_call = "call"
    /\ expr_ret = [raised |-> None, value |-> <<>>]

ExprIdle ==
    /\ genes = <<>>
    /\ E = <<>>
    /\ sig_genes = <<>>
    /\ expr_call = "none"
    /\ expr_ret = [raised |-> None, value |-> <<>>]

\* get_standardized(E[genes.index(sig_genes[0]),:])
ExprStandardized ==
    /\ expr_call = "call"
    /\ expr_call' = "get_standardized"
    /\ expr_ret' = [raised |-> None,
                    value |-> get_standardized(E[Index(genes, sig_genes[1])])]
    /\ UNCHANGED <<genes, E, sig_genes>>
    /\ UNCHANGED notexpr

\* get_signature_expression(genes, E, sig_genes)
ExprSignature ==
    /\ expr_call = "call"
    /\ expr_call' = "get_signature_expression"
    /\ expr_ret' = get_signature_expression(genes, E, sig_genes)
    /\ UNCHANGED <<genes, E, sig_genes>>
    /\ UNCHANGED notexpr

\* get_signature_expression_robust(genes, E, sig_genes)
ExprSignatureRobust ==
    /\ expr_call = "call"
    /\ expr_call' = "get_signature_expression_robust"
    /\ expr_ret' = get_signature_expression_robust(genes, E, sig_genes)
    /\ UNCHANGED <<genes, E, sig_genes>>
    /\ UNCHANGED notexpr

ExprNext == ExprStandardized \/ ExprSignature \/ ExprSignatureRobust

\* ------------------------------------------------------------------------
\* cluster_rows, cluster_signatures
\* ------------------------------------------------------------------------
\* The linkage matrices scipy's linkage can return for n >= 2 observations,
\* whatever the metric and method: n-1 merges <<a, b>> (a < b) of two
\* clusters not merged before; the leaves are 0..n-1 and merge number i
\* (from 0) makes cluster n+i.
RECURSIVE LinkagesFrom(_, _, _)
LinkagesFrom(avail, nextid, left) ==
    IF left = 0 THEN {<<>>}
    ELSE UNION {
           {<<pr>> \o rest :
               rest \in LinkagesFrom((avail \ {pr[1], pr[2]}) \cup {nextid},
                                     nextid + 1, left - 1)} :
           pr \in {x \in avail \X avail : x[1] < x[2]}}

Linkages(n) == LinkagesFrom(0..(n - 1), n, n - 1)

\* dendrogram(Z, no_plot=True)['ivl']: the leaf labels (the text of the
\* leaf's number) from left to right; the left subtree of a merge is its
\* first cluster, the right subtree its second
RECURSIVE LeavesOf(_, _, _)
LeavesOf(ZZ, n, node) ==
    IF node < n THEN <<ToString(node)>>
    ELSE LeavesOf(ZZ, n, ZZ[node - n + 1][1])
            \o LeavesOf(ZZ, n, ZZ[node - n + 1][2])

Dendrogram(ZZ, n) == LeavesOf(ZZ, n, 2 * n - 2)

\* int(l) of a leaf label
IntOf(l) == CHOOSE i \in 0..(MaxRows + 1) : ToString(i) = l

\* a row without spread: its correlation distance to any row is 0/0 = nan
ConstantRow(row) == \A j \in 1..Len(row) : row[j] = row[1]

\* pdist(S, metric) holds a nan
HasNaN(M, mt) ==
    mt = "correlation" /\ \E i \in 1..Len(M) : ConstantRow(M[i])

\* what dendrogram(linkage(squareform(pdist(S, metric)), method)) raises:
\* fewer than two observations are rejected, and a scipy that checks
\* rejects non-finite distances
LinkageRaises(M, mt) ==
    IF Len(M) < 2 THEN "ValueError"
    ELSE IF HasNaN(M, mt) /\ finite_check THEN "ValueError"
    ELSE None

\* cluster_rows without the reversal
cluster_rows_NoInvert(M, mt, md, inv) ==
    IF LinkageRaises(M, mt) # None
    THEN [raised |-> LinkageRaises(M, mt), value |-> <<>>]
    ELSE LET ivl == Dendrogram(Z, Len(M))
             order_rows == [i \in 1..Len(ivl) |-> IntOf(ivl[i])]
         IN  [raised |-> None, value |-> order_rows]

\* cluster_rows(S, metric, method, invert)
cluster_rows(M, mt, md, inv) ==
    IF LinkageRaises(M, mt) # None
    THEN [raised |-> LinkageRaises(M, mt), value |-> <<>>]
    ELSE LET ivl == Dendrogram(Z, Len(M))
             order_rows == [i \in 1..Len(ivl) |-> IntOf(ivl[i])]
         IN  [raised |-> None,
              value |-> IF inv THEN Reverse(order_rows) ELSE order_rows]

\* cluster_signatures(S, metric, method, invert)
cluster_signatures(M, mt, md, inv) == cluster_rows(M, mt, md, inv)

ClusterCells == {0, 1}
ClusterCols == {1, 2}
ClusterMatrices(most) ==
    UNION {[1..n -> [ClusterCols -> ClusterCells]] : n \in 1..most}
Metrics == {"correlation", "euclidean"}
Methods == {"average", "single"}

\* a caller about to cluster the rows of a matrix
ClInit ==
    /\ S \in ClusterMatrices(MaxRows)
    /\ metric \in Metrics
    /\ method \in Methods
    /\ Z \in (IF Len(S) < 2 THEN {<<>>} ELSE Linkages(Len(S)))
    /\ finite_check \in BOOLEAN
    /\ cl_call = [fn |-> "call", invert |-> FALSE]
    /\ cl_ret = [raised |-> None, value |-> <<>>]

ClIdle ==
    /\ S = <<>>
    /\ metric = "correlation"
    /\ method = "average"
    /\ Z = <<>>
    /\ finite_check = FALSE
    /\ cl_call = [fn |-> "none", invert |-> FALSE]
    /\ cl_ret = [raised |-> None, value |-> <<>>]

\* cluster_rows(S, metric, method, invert)
ClusterRows ==
    /\ cl_call.fn = "call"
    /\ \E invert \in BOOLEAN :
          /\ cl_call' = [fn |-> "cluster_rows", invert |-> invert]
          /\ cl_ret' = cluster_rows(S, metric, method, invert)
    /\ UNCHANGED <<S, metric, method, Z, finite_check>>
    /\ UNCHANGED notcl

\* cluster_signatures(S, metric, method, invert)
ClusterSignatures ==
    /\ cl_call.fn = "call"
    /\ \E invert \in BOOLEAN :
          /\ cl_call' = [fn |-> "cluster_signatures", invert |-> invert]
          /\ cl_ret' = cluster_signatures(S, metric, method, invert)
    /\ UNCHANGED <<S, metric, method, Z, finite_check>>
    /\ UNCHANGED notcl

ClNext == ClusterRows \/ ClusterSignatures

\* ------------------------------------------------------------------------
\* GOPCASignature.get_pretty_format
\* ------------------------------------------------------------------------
\* Texts that are searched or cut are sequences of characters.

\* the longest max_name_length a caller passes
MaxNameLength == 5

\* GOPCASignature.abbrev: (pattern, replacement) pairs; no pattern holds a
\* character that is special in a regular expression
abbrev ==
    << << <<"p", "o", "s", "i", "t", "i", "v", "e", " ">>,
          <<"p", "o", "s", ".", " ">> >>,
       << <<"n", "e", "g", "a", "t", "i", "v", "e", " ">>,
          <<"n", "e", "g", ".", " ">> >>,
       << <<"i", "n", "t", "e", "r", "f", "e", "r", "o", "n", "-">>,
          <<"I", "F", "N", "-">> >>,
       << <<"p", "r", "o", "l", "i", "f", "e", "r", "a", "t", "i", "o", "n">>,
          <<"p", "r", "o", "l", "i", "f", ".">> >>,
       << <<"s", "i", "g", "n", "a", "l", "i", "n", "g">>,
          <<"s", "i", "g", "n", "a", "l", ".">> >> >>

\* term names: short ones, and ones the abbreviations apply to
TermNames ==
    {<<>>,
     <<"a", "b">>,
     <<"a", "b", "c">>,
     <<"a", "b", "c", "d">>,
     <<"a", "b", "c", "d", "e", "f", "g">>,
     <<"s", "i", "g", "n", "a", "l", "i", "n", "g">>,
     <<"p", "o", "s", "i", "t", "i", "v", "e", " ", "T">>,
     <<"T", " ", "p", "r", "o", "l", "i", "f", "e", "r", "a", "t", "i",
       "o", "n">>}

\* enrichment results whose term name is a sequence of characters
PrettyEnrichments ==
    {[term |-> <<"GO:0006955", "GO", "BP", name>>,
      k |-> 2, K |-> 5, pval |-> pv] :
        name \in TermNames, pv \in {Rat(1, 100), Rat(3, 2000)}}

\* re.sub(pattern, repl, string) for a literal pattern: every occurrence,
\* leftmost first, none overlapping another
RECURSIVE ReSub(_, _, _)
ReSub(pattern, repl, string) ==
    IF Len(string) < Len(pattern) THEN string
    ELSE IF SubSeq(string, 1, Len(pattern)) = pattern
    THEN repl \o ReSub(pattern, repl,
                       SubSeq(string, Len(pattern) + 1, Len(string)))
    ELSE <<string[1]>> \o ReSub(pattern, repl, Tail(string))

\* for abb in self.abbrev: term_name = re.sub(abb[0],abb[1],term_name)
RECURSIVE Abbreviate(_, _)
Abbreviate(term_name, i) ==
    IF i > Len(abbrev) THEN term_name
    ELSE Abbreviate(ReSub(abbrev[i][1], abbrev[i][2], term_name), i + 1)

\* string[:stop]: a negative stop counts from the end
PySliceTo(string, stop) ==
    LET n == Len(string)
        last == IF stop >= 0 THEN (IF stop < n THEN stop ELSE n)
                ELSE (IF n + stop > 0 THEN n + stop ELSE 0)
    IN  SubSeq(string, 1, last)

Ellipsis == <<".", ".", ".">>

\* lines 122-123: term_name[:(max_name_length-3)] + '...'
Truncate(term_name, max_name_length) ==
    IF max_name_length > 0 /\ Len(term_name) > max_name_length
    THEN PySliceTo(term_name, max_name_length - 3) \o Ellipsis
    ELSE term_name

\* 10^e as a rational
Ten(e) == IF e >= 0 THEN Rat(10 ^ e, 1) ELSE Rat(1, 10 ^ (0 - e))

\* the decimal exponent of x > 0
RECURSIVE Exponent(_, _)
Exponent(x, e) ==
    IF RLt(x, Ten(e)) THEN Exponent(x, e - 1)
    ELSE IF RLt(x, Ten(e + 1)) THEN e
    ELSE Exponent(x, e + 1)

\* '%.1e' % x for x >= 0: two significant digits (as tenths) and the
\* exponent (no value used here lies halfway between two roundings)
Fmt1e(x) ==
    IF x = Zero THEN [tenths |-> 0, exp |-> 0]
    ELSE LET e == Exponent(x, 0)
             y == RAdd(RMulInt(RDiv(x, Ten(e)), 10), Rat(1, 2))
             t == y.num \div y.den
         IN  IF t >= 100 THEN [tenths |-> 10, exp |-> e + 1]
             ELSE [tenths |-> t, exp |-> e]

\* GOPCASignature.get_pretty_format(omit_acc, nitty_gritty, max_name_length):
\* the parts of the returned text, '<namespace>: <term_name>', then
\* ' (<id>)' unless omit_acc, then the details if nitty_gritty
get_pretty_format(self, omit_acc, nitty_gritty, max_name_length) ==
    LET enr == self.enrichment
        term == enr.term
        term_name == Truncate(Abbreviate(PyIdx(term, 3), 1),
                              max_name_length)
    IN  [namespace |-> PyIdx(term, 2),
         term_name |-> term_name,
         acc |-> IF ~omit_acc THEN <<PyIdx(term, 0)>> ELSE <<>>,
         details |-> IF nitty_gritty
                     THEN <<FmtD(enr.k), FmtD(enr.K), FmtD(self.pc),
                            Fmt1e(enr.pval), Fmt1f(self.mfe)>>
                     ELSE <<>>]

\* a caller holding a signature, about to format it
PfInit ==
    /\ \E pc \in PcValues, mfe \in MfeValues, enr \in PrettyEnrichments :
          pf_self = GOPCASignature_init(<<"g1">>, pc, mfe, enr, <<>>)
    /\ pf_call = [op |-> "call", omit_acc |-> FALSE, nitty_gritty |-> FALSE,
                  max_name_length |-> 0]
    /\ pf_ret = [raised |-> None, value |-> NoObject]

PfIdle ==
    /\ pf_self = NoObject
    /\ pf_call = [op |-> "none", omit_acc |-> FALSE, nitty_gritty |-> FALSE,
                  max_name_length |-> 0]
    /\ pf_ret = [raised |-> None, value |-> NoObject]

\* pf_self.get_pretty_format(omit_acc, nitty_gritty, max_name_length)
PrettyFormat ==
    /\ pf_call.op = "call"
    /\ \E omit_acc \in BOOLEAN, nitty_gritty \in BOOLEAN,
          max_name_length \in 0..MaxNameLength :
          /\ pf_call' = [op |-> "get_pretty_format",
                         omit_acc |-> omit_acc,
                         nitty_gritty |-> nitty_gritty,
                         max_name_length |-> max_name_length]
          /\ pf_ret' = [raised |-> None,
                        value |-> get_pretty_format(pf_self, omit_acc,
                                      nitty_gritty, max_name_length)]
    /\ UNCHANGED pf_self
    /\ UNCHANGED notpf

PfNext == PrettyFormat

\* ------------------------------------------------------------------------
\* The orchestrator: per-component, per-direction signature discovery with
\* the local and the global filter.  Its module (go_pca) is not part of the
\* sources at hand; the steps below follow the specification's sections
\* "Orchestrator" and "FilterEngine".  The enrichment test and the
\* correlation of score vectors are computed outside it: their outcomes
\* (which term is selected at which cutoff, whether the global filter
\* rejects) are any outcome they can have.
\* ------------------------------------------------------------------------
\* the number of principal components tested
MaxComponents == 2

OrcGenes == {"g1", "g2"}
OrcTerms == {"GO:1", "GO:2"}
LoadingValues == {-2, 3}

\* loadings of one component: no two genes share a loading
ComponentLoadings ==
    {f \in [OrcGenes -> LoadingValues] :
        \A g, h \in OrcGenes : f[g] = f[h] => g = h}

\* the gene set of an annotation term
TermGeneSets == (SUBSET OrcGenes) \ {{}}

\* the genes of the pool ranked by their loading on component c:
\* descending for the positive direction, ascending for the negative one
RECURSIVE RankGenes(_, _, _)
RankGenes(w, gs, dir) ==
    IF gs = {} THEN <<>>
    ELSE LET first == CHOOSE g \in gs :
                        \A h \in gs : dir * w[g] >= dir * w[h]
         IN  <<first>> \o RankGenes(w, gs \ {first}, dir)

\* the genes above the cutoff n of a ranking
TopWindow(r, n) == {r[i] : i \in 1..n}

\* the member genes of a signature: the term's genes inside the window
SignatureBuilder(term_genes, r, n) == term_genes \cap TopWindow(r, n)

\* the local filter applied with the switch read the wrong way round
LocalFilterInverted(p, members, disabled) ==
    IF disabled THEN p \ members ELSE p

\* the local filter: the genes claimed by an accepted signature leave the
\* pool, unless the filter is disabled
LocalFilter(p, members, disabled) ==
    IF disabled THEN p ELSE p \ members

\* the genes claimed by the accepted signatures
Claimed(sigs) == UNION {sigs[i].genes : i \in 1..Len(sigs)}

OrcInit ==
    /\ loadings \in [1..MaxComponents -> ComponentLoadings]
    /\ annotations \in [OrcTerms -> TermGeneSets]
    /\ disable_local_filter \in BOOLEAN
    /\ disable_global_filter \in BOOLEAN
    /\ pool = OrcGenes
    /\ signatures = <<>>
    /\ component = 1
    /\ direction = 1
    /\ ranking = <<>>
    /\ phase = "rank"

OrcIdle ==
    /\ loadings = <<>>
    /\ annotations = <<>>
    /\ disable_local_filter = FALSE
    /\ disable_global_filter = FALSE
    /\ pool = {}
    /\ signatures = <<>>
    /\ component = 1
    /\ direction = 1
    /\ ranking = <<>>
    /\ phase = "done"

\* move on: component index ascending, positive direction before negative
Advance ==
    IF direction = 1
    THEN /\ direction' = -1
         /\ component' = component
         /\ phase' = "rank"
    ELSE IF component < MaxComponents
    THEN /\ direction' = 1
         /\ component' = component + 1
         /\ phase' = "rank"
    ELSE /\ UNCHANGED <<direction, component>>
         /\ phase' = "done"

\* rank the genes of the pool for the current component and direction
OrcRank ==
    /\ phase = "rank"
    /\ ranking' = RankGenes(loadings[component], pool, direction)
    /\ phase' = "scan"
    /\ UNCHANGED <<loadings, annotations, disable_local_filter,
                   disable_global_filter, pool, signatures, component,
                   direction>>
    /\ UNCHANGED notorc

\* the scan of the ranking finds no term that qualifies
OrcScanNone ==
    /\ phase = "scan"
    /\ Advance
    /\ UNCHANGED <<loadings, annotations, disable_local_filter,
                   disable_global_filter, pool, signatures, ranking>>
    /\ UNCHANGED notorc

\* the scan selects a term, and the global filter rejects its signature
OrcScanReject ==
    /\ phase = "scan"
    /\ ~disable_global_filter
    /\ signatures # <<>>
    /\ \E t \in OrcTerms, n \in 1..Len(ranking) :
          SignatureBuilder(annotations[t], ranking, n) # {}
    /\ Advance
    /\ UNCHANGED <<loadings, annotations, disable_local_filter,
                   disable_global_filter, pool, signatures, ranking>>
    /\ UNCHANGED notorc

\* the scan selects a term and its signature is accepted
OrcScanAccept ==
    /\ phase = "scan"
    /\ \E t \in OrcTerms, n \in 1..Len(ranking) :
          LET members == SignatureBuilder(annotations[t], ranking, n)
          IN  /\ members # {}
              /\ signatures' = Append(signatures,
                                  [pc |-> component * direction,
                                   term |-> t,
                                   genes |-> members])
              /\ pool' = LocalFilter(pool, members, disable_local_filter)
    /\ Advance
    /\ UNCHANGED <<loadings, annotations, disable_local_filter,
                   disable_global_filter, ranking>>
    /\ UNCHANGED notorc

OrcNext == OrcRank \/ OrcScanNone \/ OrcScanReject \/ OrcScanAccept

\* ------------------------------------------------------------------------
\* Specifications
\* ------------------------------------------------------------------------
Init == QInit /\ CfgIdle /\ SigIdle /\ ResIdle /\ ExprIdle /\ ClIdle
    /\ OrcIdle /\ PfIdle

Next == QNext

\* calls of get_qvalues
Spec == Init /\ [][Next]_vars

InitConfig == CfgInit /\ QIdle /\ SigIdle /\ ResIdle /\ ExprIdle /\ ClIdle
    /\ OrcIdle /\ PfIdle

NextConfig == CfgNext

\* constructions and comparisons of GOPCAConfig objects
SpecConfig == InitConfig /\ [][NextConfig]_vars

InitSignature == SigInit /\ QIdle /\ CfgIdle /\ ResIdle /\ ExprIdle /\ ClIdle
    /\ OrcIdle /\ PfIdle

NextSignature == SigNext

\* constructions and comparisons of GOPCASignature objects
SpecSignature == InitSignature /\ [][NextSignature]_vars

InitResult == ResInit /\ QIdle /\ CfgIdle /\ SigIdle /\ ExprIdle /\ ClIdle
    /\ OrcIdle /\ PfIdle

NextResult == ResNext

\* constructions of GOPCAResult objects
SpecResult == InitResult /\ [][NextResult]_vars

InitExpression == ExprInit /\ QIdle /\ CfgIdle /\ SigIdle /\ ResIdle /\ ClIdle
    /\ OrcIdle /\ PfIdle

NextExpression == ExprNext

\* calls of the expression score calculators
SpecExpression == InitExpression /\ [][NextExpression]_vars

InitCluster ==
    ClInit /\ QIdle /\ CfgIdle /\ SigIdle /\ ResIdle /\ ExprIdle
    /\ OrcIdle /\ PfIdle

NextCluster == ClNext

\* calls of cluster_rows and cluster_signatures
SpecCluster == InitCluster /\ [][NextCluster]_vars

InitOrchestrator ==
    OrcInit /\ QIdle /\ CfgIdle /\ SigIdle /\ ResIdle /\ ExprIdle /\ ClIdle
        /\ PfIdle

NextOrchestrator == OrcNext

\* the discovery run of the orchestrator
SpecOrchestrator == InitOrchestrator /\ [][NextOrchestrator]_vars

InitPretty ==
    PfInit /\ QIdle /\ CfgIdle /\ SigIdle /\ ResIdle /\ ExprIdle /\ ClIdle
        /\ OrcIdle

NextPretty == PfNext

\* a call of get_pretty_format on a signature
SpecPretty == InitPretty /\ [][NextPretty]_vars

\* ========================================================================
\* Properties of get_qvalues
\* ========================================================================
QDone == qpc = "done"
QReturned == QDone /\ qret.raised = None
QIdx == 1..Len(pvals)
AllInUnit == \A i \in QIdx : InUnit(pvals[i])

\* C1 as stated: for any two positions i, j with pvals[i] <= pvals[j],
\* qvals[i] <= qvals[j] (this makes tied p-values get equal q-values).
C1_MonotonicAnyPair ==
    (QReturned /\ Len(pvals) > 0 /\ RLt(Zero, pi_zero)) =>
        \A i, j \in QIdx :
            RLe(pvals[i], pvals[j]) => RLe(qret.value[i], qret.value[j])

\* What the loop does guarantee: the q-values are non-decreasing along the
\* stable ascending order of the p-values (pvals[i] < pvals[j], or
\* pvals[i] = pvals[j] with i before j in the input).
QMonotonicStableOrder ==
    (QReturned /\ Len(pvals) > 0 /\ RLt(Zero, pi_zero)) =>
        \A i, j \in QIdx :
            (RLt(pvals[i], pvals[j]) \/ (pvals[i] = pvals[j] /\ i < j))
                => RLe(qret.value[i], qret.value[j])

\* a finished call on a vector with a tie whose two q-values differ
QTieWitness ==
    /\ QReturned /\ RLt(Zero, pi_zero)
    /\ \E i, j \in QIdx :
          /\ i < j /\ pvals[i] = pvals[j]
          /\ RLt(qret.value[i], qret.value[j])
    /\ \E i, j \in QIdx : RLt(pvals[i], pvals[j])

QInvalidInput == Len(pvals) = 0 \/ \E i \in QIdx : ~InUnit(pvals[i])

\* C3 as stated: get_qvalues fails with an invalid-input error, returning no
\* q-value vector, when the vector is empty or holds a value outside [0, 1].
C3_InvalidInputFails ==
    (QDone /\ QInvalidInput) => qret.raised # None

\* C3 amended: get_qvalues validates nothing: on an empty vector it returns
\* an empty q-value vector, and on a vector with values outside [0, 1] it
\* returns one q-value (at most 1.0) per p-value, without raising.
C3_InvalidInputReturns ==
    (QDone /\ QInvalidInput) =>
        /\ qret.raised = None
        /\ Len(qret.value) = Len(pvals)
        /\ \A i \in QIdx :
              qret.value[i] # Uninit /\ RLe(qret.value[i], One)

\* a finished call on a vector holding a value below 0 and a value above 1,
\* which returned a negative q-value
C3_Witness ==
    /\ QReturned
    /\ \E i \in QIdx : RLt(pvals[i], Zero)
    /\ \E i \in QIdx : RLt(One, pvals[i])
    /\ \E i \in QIdx : RLt(qret.value[i], Zero)

\* ========================================================================
\* Properties of GOPCAConfig
\* ========================================================================
CfgConstructed == cfg_call.op = "__init__"
CfgCompared == cfg_call.op = "__eq__"

\* C4: constructing a GOPCAConfig succeeds exactly when every recognized
\* parameter is among the supplied keys; a missing one aborts construction;
\* unknown keys are warned about and dropped, so the object carries exactly
\* the recognized parameters with the supplied values.
C4_ConfigConstruction ==
    CfgConstructed =>
        LET kwargs == cfg_call.kwargs
        IN  /\ (cfg_ret.raised = None) <=> (valid_attrs \subseteq DOMAIN kwargs)
            /\ cfg_ret.printed = Sorted(DOMAIN kwargs \ valid_attrs)
            /\ cfg_ret.raised = None =>
                  /\ cfg_ret.value \in configs
                  /\ DOMAIN cfg_ret.value.dict = valid_attrs
                  /\ \A k \in valid_attrs : cfg_ret.value.dict[k] = kwargs[k]
            /\ cfg_ret.raised # None => cfg_ret.value = NoObject

\* a successful construction from keyword arguments holding unknown keys
C4_Witness ==
    /\ CfgConstructed
    /\ cfg_ret.raised = None
    /\ UnknownKeys \subseteq DOMAIN cfg_call.kwargs
    /\ \E k \in valid_attrs : cfg_call.kwargs[k] = 1

\* C5: comparing two configs with == returns True when all recognized
\* parameter values are equal and False when any differs or the other
\* object is no GOPCAConfig; the comparison yields a boolean, never fails.
C5_ConfigEqStructural ==
    CfgCompared =>
        /\ cfg_ret.raised = None
        /\ cfg_ret.value =
              (/\ cfg_call.other.type = "GOPCAConfig"
               /\ cfg_call.self.dict = cfg_call.other.dict)

\* ========================================================================
\* Properties of GOPCASignature
\* ========================================================================
SigCompared == sig_call.op = "__eq__"

SameFields(x, y) ==
    /\ x.label = y.label
    /\ x.pc = y.pc
    /\ x.mfe = y.mfe
    /\ x.enrichment = y.enrichment

\* C6: two signatures compare equal if and only if label, PC,
\* fold-enrichment and enrichment record are all equal; two signatures whose
\* fold-enrichment values differ are never equal.
C6_SignatureEqStructural ==
    (SigCompared /\ sig_call.other.type = "GOPCASignature") =>
        (sig_ret.value <=> SameFields(sig_call.self, sig_call.other))

\* What __eq__ does guarantee: signatures equal in the four fields compare
\* equal, and objects of another type compare unequal.
SigEqWhenSameFields ==
    SigCompared =>
        /\ sig_call.other.type # "GOPCASignature" => ~sig_ret.value
        /\ (/\ sig_call.other.type = "GOPCASignature"
            /\ SameFields(sig_call.self, sig_call.other)) => sig_ret.value

\* ========================================================================
\* Properties of GOPCAResult
\* ========================================================================
ResConstructed == res_call.op = "__init__"

\* the three shape invariants, on the arguments of a call
ShapesAgree(args) ==
    /\ PyIdx(args.W.shape, 0) = Len(args.genes.items)
    /\ PyIdx(args.S.shape, 0) = Len(args.signatures.items)
    /\ Len(args.S.shape) >= 2
    /\ PyIdx(args.S.shape, 1) = Len(args.samples.items)

\* C7: every constructed GOPCAResult has as many rows of W as genes, as many
\* rows of S as signatures and as many columns of S as samples; a
\* construction attempt violating any of the three is aborted and yields no
\* object.
C7_ResultShapes ==
    ResConstructed =>
        /\ res_ret.raised = None =>
              /\ res_ret.value.type = "GOPCAResult"
              /\ Len(res_ret.value.S.shape) >= 2
              /\ PyIdx(res_ret.value.W.shape, 0) = Len(res_ret.value.genes.items)
              /\ PyIdx(res_ret.value.S.shape, 0)
                    = Len(res_ret.value.signatures.items)
              /\ PyIdx(res_ret.value.S.shape, 1)
                    = Len(res_ret.value.samples.items)
        /\ ~ShapesAgree(res_call.args) =>
              (res_ret.raised # None /\ res_ret.value = NoObject)

\* a successful construction with genes, signatures and samples of three
\* different non-zero counts
C7_Witness ==
    /\ ResConstructed
    /\ res_ret.raised = None
    /\ Len(res_ret.value.genes.items) = 2
    /\ Len(res_ret.value.signatures.items) = 1
    /\ Len(res_ret.value.samples.items) = 2
    /\ res_ret.value.S.shape = <<1, 2>>

\* ========================================================================
\* Properties of the expression score calculators
\* ========================================================================
\* the row of E of the member gene g, as floats
GeneRow(g) == AsFloats(E[Index(genes, g)])

\* the denominator of gene g is zero (or undefined): fewer than 2 samples or
\* no spread for the z-score, a zero median absolute deviation for the
\* robust score
ZeroStd(g) ==
    \/ Len(GeneRow(g)) < 2
    \/ \A j \in 1..Len(GeneRow(g)) : GeneRow(g)[j] = GeneRow(g)[1]

ZeroMad(g) ==
    LET x == GeneRow(g)
        med == NpMedian(x)
    IN  NpMedian([j \in 1..Len(x) |-> RAbs(RSub(x[j], med))]) = Zero

Degenerate ==
    \/ /\ expr_call = "get_signature_expression"
       /\ \E i \in 1..Len(sig_genes) : ZeroStd(sig_genes[i])
    \/ /\ expr_call = "get_signature_expression_robust"
       /\ \E i \in 1..Len(sig_genes) : ZeroMad(sig_genes[i])

\* C8: for a signature with exactly one member gene g,
\* get_signature_expression returns exactly the vector get_standardized
\* returns for g's row of E.
C8_SingleGeneIsStandardized ==
    (expr_call = "get_signature_expression" /\ Len(sig_genes) = 1) =>
        /\ expr_ret.raised = None
        /\ expr_ret.value = get_standardized(E[Index(genes, sig_genes[1])])

\* a one-gene signature scored on three samples with a finite, non-zero
\* first score
C8_Witness ==
    /\ expr_call = "get_signature_expression"
    /\ Len(sig_genes) = 1
    /\ Len(expr_ret.value) = 3
    /\ expr_ret.value[1].k = "fin"
    /\ expr_ret.value[1].d # Zero
    /\ expr_ret.value[1].v # One

\* C9 as stated: both calculators fail with a degenerate-input error, and
\* return no score vector, whenever a member gene's denominator is zero.
C9_DegenerateFails ==
    Degenerate => expr_ret.raised # None

\* C9 amended: neither calculator fails on a zero denominator: the call
\* returns a score vector all of whose entries are nan or +-inf.
C9_DegenerateReturnsNonFinite ==
    Degenerate =>
        /\ expr_ret.raised = None
        /\ Len(expr_ret.value) = NCols(E)
        /\ \A j \in 1..Len(expr_ret.value) : ~IsFinite(expr_ret.value[j])

\* a robust score of two genes on three samples, one gene with a zero
\* median absolute deviation, holding an infinite entry
C9_Witness ==
    /\ Degenerate
    /\ expr_call = "get_signature_expression_robust"
    /\ Len(sig_genes) = 2
    /\ NCols(E) = 3
    /\ \E j \in 1..Len(expr_ret.value) : expr_ret.value[j].k = "inf"
    /\ \E i \in 1..Len(sig_genes) : ~ZeroMad(sig_genes[i])

\* ========================================================================
\* Properties of cluster_rows and cluster_signatures
\* ========================================================================
ClCalled == cl_call.fn \in {"cluster_rows", "cluster_signatures"}

\* sq holds each of 0..n-1 exactly once
IsPermutation(sq, n) ==
    /\ Len(sq) = n
    /\ \A r \in 0..(n - 1) : Cardinality({i \in 1..n : sq[i] = r}) = 1

\* the order returned for the same arguments with the other value of invert
OtherInvert == cluster_rows(S, metric, method, ~cl_call.invert)

RankedGenes == {ranking[i] : i \in 1..Len(ranking)}

\* no gene is a member of two accepted signatures
SignaturesDisjoint ==
    \A i, j \in 1..Len(signatures) :
        i # j => signatures[i].genes \cap signatures[j].genes = {}

\* C11: with local filtering enabled, a gene claimed by an accepted
\* signature is in the ranking pool of no later enrichment scan, so no gene
\* is a member of two accepted signatures; with local filtering disabled no
\* gene is removed from the pool.
C11_LocalFilter ==
    /\ ~disable_local_filter =>
          /\ pool \cap Claimed(signatures) = {}
          /\ phase = "scan" => RankedGenes \cap Claimed(signatures) = {}
          /\ SignaturesDisjoint
    /\ disable_local_filter =>
          /\ pool = OrcGenes
          /\ phase = "scan" => RankedGenes = OrcGenes

\* the filter enabled, a scan on a later component ranks what an accepted
\* signature of the first component left in the pool
C11_Witness ==
    /\ ~disable_local_filter
    /\ Len(signatures) >= 1
    /\ component > 1
    /\ phase = "scan"
    /\ ranking # <<>>

\* with the filter disabled, two accepted signatures can share a gene
OrcOverlapWhenDisabled ==
    /\ disable_local_filter
    /\ ~SignaturesDisjoint

\* ------------------------------------------------------------------------
\* The walk of get_qvalues
\* ------------------------------------------------------------------------
QWalking == qpc \in {"loop", "done"}

\* the walk goes from the largest p-value to the smallest
QDescending ==
    \A k \in 1..(Len(a) - 1) : RLe(pvals[a[k + 1]], pvals[a[k]])

\* the q-value assigned at rank k is min(pi_zero * p * n / k, the q-value
\* assigned at rank k - 1), the running minimum being 1.0 before rank 1
QAssignedByRank ==
    \A k \in 1..(it - 1) :
        qvals[a[k]] =
            RMin(Candidate(pi_zero, pvals[a[k]], Len(pvals), k),
                 IF k = 1 THEN One ELSE qvals[a[k - 1]])

\* C12 as stated: a stable descending walk, where among equal p-values the
\* one earlier in the input is visited first, and the q-value at rank s is
\* min(pi_zero * p * n / s, the q-value at rank s - 1).
C12_EarlierTieFirst ==
    QWalking =>
        /\ QDescending
        /\ \A k \in 1..(Len(a) - 1) :
              pvals[a[k]] = pvals[a[k + 1]] => a[k] < a[k + 1]
        /\ QAssignedByRank

\* C12 amended: the walk is the reversed stable ascending order, so among
\* equal p-values the one LATER in the input is visited first; the rank s
\* counts the visits from 1 and the q-value at rank s is
\* min(pi_zero * p * n / s, the q-value at rank s - 1), 1.0 before rank 1.
C12_LaterTieFirst ==
    QWalking =>
        /\ QDescending
        /\ \A k \in 1..(Len(a) - 1) :
              pvals[a[k]] = pvals[a[k + 1]] => a[k] > a[k + 1]
        /\ s = it
        /\ QAssignedByRank

\* a finished walk over a vector holding a tie and a larger p-value
C12_Witness ==
    /\ QReturned
    /\ \E i, j \in QIdx : i < j /\ pvals[i] = pvals[j]
    /\ \E i, j \in QIdx : RLt(pvals[i], pvals[j])

\* ------------------------------------------------------------------------
\* The term name get_pretty_format shows
\* ------------------------------------------------------------------------
PfCalled == pf_call.op = "get_pretty_format" /\ pf_ret.raised = None

\* the term name of the signature after the abbreviation substitutions
PfAbbreviated == Abbreviate(PyIdx(pf_self.enrichment.term, 3), 1)
PfShown == pf_ret.value.term_name

EndsWithEllipsis(string) ==
    /\ Len(string) >= 3
    /\ SubSeq(string, Len(string) - 2, Len(string)) = Ellipsis

\* C13 as stated: for every term name and every max_name_length > 0 the
\* name shown has at most max_name_length characters: a longer name is cut
\* and ends with '...', a name that fits is shown unchanged; with
\* max_name_length = 0 nothing is cut.
C13_ShownNameFits ==
    PfCalled =>
        LET m == pf_call.max_name_length
        IN  /\ m > 0 => Len(PfShown) <= m
            /\ (m > 0 /\ Len(PfAbbreviated) > m) => EndsWithEllipsis(PfShown)
            /\ (m > 0 /\ Len(PfAbbreviated) <= m) => PfShown = PfAbbreviated
            /\ m = 0 => PfShown = PfAbbreviated

\* What the method does guarantee: the statement above for every
\* max_name_length of at least 3 (and for 0).
PfShownNameFitsFromThree ==
    (PfCalled /\ pf_call.max_name_length \notin {1, 2}) => C13_ShownNameFits

\* a name cut to max_name_length 1 or 2 comes out longer than it went in
PfCutLongerThanName ==
    /\ PfCalled
    /\ pf_call.max_name_length \in {1, 2}
    /\ Len(PfShown) > Len(PfAbbreviated)

====
